---- MODULE Spec2Model ----
(***************************************************************************)
(* Credential lifecycle (TokenManager, src/models.ts) and resilient        *)
(* forwarding (CompletionProvider, src/unnamed/part_002) of the Copilot    *)
(* gateway, as one state machine (specification Spec).  The traffic guards *)
(* of src/utils.ts (RateLimiter, CircuitBreaker), device authorization    *)
(* (TokenManager.authenticate and pollForToken) and the reading of the     *)
(* upstream event stream are objects with a state of their own: each is    *)
(* exercised by a specification of its own (LimiterSpec, BreakerSpec,      *)
(* BreakerLive, PollSpec, SseSpec) in which the rest of the program stays  *)
(* in its initial state.                                                   *)
(*                                                                         *)
(* The program runs on a single-threaded event loop.  A step of the model  *)
(* is the code that runs between two awaits on external I/O (file system,  *)
(* HTTP, timers).  When a promise settles, the continuations that await it *)
(* run in the same microtask checkpoint, before any timer or I/O callback: *)
(* the variable "drain" holds the processes whose continuation is queued,  *)
(* and while it is not empty only those continuations run.                 *)
(***************************************************************************)
EXTENDS Integers, FiniteSets, Sequences, TLC

\* ---- bounds of the model
NumForwarders == 1
NumModels == 1
MaxTicks == 1
MaxJobs == 2
MaxExch == 3
MaxAuth == 2
\* RateLimiter instance of the model (the program's instance: 50 and 10,
\* src/unnamed/part_000 rateLimit) and the admissions followed
requestsPerMinute == 3
burstSize == 2
MaxAdmitted == 5
\* execute() calls in flight at a time
MaxCalls == 4
\* polls of one device-authorization session
MaxPolls == 4
\* lines of one upstream body
MaxLines == 3

\* ---- program constants
maxRetries == 3
ExpiryBufferMs == 300000
RefreshIntervalMs == 1500000
windowMs == 60000
burstWindowMs == 1000
failureThreshold == 5
resetTimeoutMs == 30000
halfOpenMaxCalls == 3

\* The clock advances in steps of the refresh interval (25 minutes).
TickMs == RefreshIntervalMs

\* The callers: requests to /v1/completions (handleCompletionRequest) and
\* requests to /v1/models (getModels).
Forwarders == 1..NumForwarders
ModelCallers == (NumForwarders + 1)..(NumForwarders + NumModels)
Callers == Forwarders \cup ModelCallers
\* Process 0 is the startup path (startServer awaiting initialize()).
Startup == 0

VARIABLES
  now,            \* Date.now(), in ms
  tokenFile,      \* CONFIG.tokenFile exists (holds the long-lived secret)
  copilotToken,   \* TokenManager.copilotToken: 0 is null, n > 0 the credential
                  \* returned by the n-th exchange call
  expiresAt,      \* TokenManager.expiresAt in ms, 0 is null
  refreshPromise, \* TokenManager.refreshPromise: 0 is null, else the job awaited
  jobs,           \* the doRefresh() invocations in flight
  exchCalls,      \* exchange calls sent so far (GET copilotToken endpoint)
  lastJob,        \* summary of the doRefresh() that settled last
  timers,         \* next due time of each setInterval timer
  initPc,         \* position of initialize()
  initJob,        \* the job initialize() awaits, 0 if none
  provToken,      \* CompletionProvider.token (singleton), 0 is null
  req,            \* per caller: the request it runs
  drain,          \* processes whose continuation is queued as a microtask
  \* RateLimiter (src/utils.ts)
  timestamps,     \* RateLimiter.timestamps
  admitted,       \* history: the times of all admitted acquire() calls
  acquired,       \* result of the last acquire() call
  \* CircuitBreaker (src/utils.ts)
  cbState,        \* CircuitBreaker.state
  failures,       \* CircuitBreaker.failures
  halfOpenCalls,  \* CircuitBreaker.halfOpenCalls
  resetTimeout,   \* CircuitBreaker.resetTimeout: 0 is null, else a timer handle
  pendingResets,  \* the setTimeout callbacks of trip() not yet run: handle, delay
  calls,          \* operations in flight, by the state they were admitted in
  cbEvent,        \* the last event of the breaker
  streak,         \* history: failures recorded in a row while Closed
  probes,         \* history: operations admitted in the current HalfOpen period
  \* TokenManager.pollForToken (src/models.ts)
  pollPc,         \* position of pollForToken()
  pollSession,    \* the device code response polled for, and startTime
  pollWait,       \* duration of the sleep in progress, ms
  pollLog,        \* history: the answer to each poll, the wait it caused, and
                  \* what its debug line shows of the secret
  polls,          \* polls sent
  progressInterval, \* the progress timer is set
  pollError,      \* the error authenticate() ends with, "none" if none
  authPc,         \* position of authenticate()
  stored,         \* authenticate() wrote the secret to CONFIG.tokenFile
  \* Reading the upstream event stream (src/unnamed/part_002)
  ssePc,          \* position of the reading loop
  sseMode,        \* "buffered" (createCompletion) or "streaming"
  sseBody,        \* the lines of the upstream body
  ssePos,         \* the next line of the body to arrive
  sseTail,        \* the last chunk ended inside a line
  sseOut,         \* fullText, by fragment; the chunks enqueued
  sseClosed,      \* number of controller.close() calls
  sseResult,      \* choices[0].text returned by createCompletion
  sseAttempt,     \* executeWithRetry: attempt, the upstream calls sent
  sseSlept,       \* history: the delays slept by executeWithRetry, ms
  sseLocks        \* readers obtained with getReader() and not released

tmVars   == <<copilotToken, expiresAt, refreshPromise, jobs>>
initVars == <<initPc, initJob, timers>>
limiterVars == <<timestamps, admitted, acquired>>
breakerVars == <<cbState, failures, halfOpenCalls, resetTimeout, pendingResets, calls,
                 cbEvent, streak, probes>>
pollVars == <<pollPc, pollSession, pollWait, pollLog, polls, progressInterval,
              pollError, authPc, stored>>
sseVars == <<ssePc, sseMode, sseBody, ssePos, sseTail, sseOut, sseClosed, sseResult,
             sseAttempt, sseSlept, sseLocks>>
\* The state of the server proper, the clock apart.
serverVars == <<tokenFile, copilotToken, expiresAt, refreshPromise, jobs, exchCalls,
                lastJob, timers, initPc, initJob, provToken, req, drain>>
vars == <<now, serverVars, limiterVars, breakerVars, pollVars, sseVars>>

\* ------------------------------------------------------------------------
\* Errors (src/unnamed/part_001)
\* ------------------------------------------------------------------------
NoErr == [kind |-> "none", status |-> 0, attempt |-> 0]

\* new ServerError("Completion generation failed", status, ...) thrown for
\* attempt k
ServerError(status, k) == [kind |-> "ServerError", status |-> status, attempt |-> k]

\* new AuthenticationError(...): status 401
AuthenticationError(k) == [kind |-> "AuthenticationError", status |-> 401, attempt |-> k]

\* The catch that closes the operation passed to executeWithRetry: whatever
\* was thrown inside (the ServerError carrying response.status included) is
\* replaced by a ServerError with status 500.
OperationCatch(e) == ServerError(500, e.attempt)

\* ------------------------------------------------------------------------
\* TokenManager
\* ------------------------------------------------------------------------
\* isExpired() without the 5-minute buffer.
isExpired_NoBuffer(exp, t) == exp = 0 \/ t >= exp

\* isExpired(): !this.expiresAt || Date.now() >= this.expiresAt - 5 * 60 * 1000
isExpired(exp, t) == exp = 0 \/ t >= exp - ExpiryBufferMs

\* getValidToken(): !this.copilotToken || this.isExpired()
NeedsRefresh == copilotToken = 0 \/ isExpired(expiresAt, now)

\* refresh() without the check of the refresh in flight.
ShouldJoin_Never(p) == FALSE

\* refresh(): if (this.refreshPromise) { await this.refreshPromise; return; }
ShouldJoin(p) == p # 0

\* refresh() calling doRefresh() without keeping its promise.
StoredPromise_Forgotten(id) == 0

\* refresh(): this.refreshPromise = this.doRefresh();
StoredPromise(id) == id

\* A doRefresh() invocation (with the invocations it makes of itself after a
\* 401).  starter: the process that called it ("init", "timer", "caller").
\* shared: it was started by refresh(), whose finally clears refreshPromise.
\* call: index of the exchange call it has in flight.
\* nExch, n401, nAuth: the exchange calls it sent, the 401 answers it got
\* and the device authorizations it started.
NewJob(id, shared, starter) ==
  [id |-> id, pc |-> "read", shared |-> shared, starter |-> starter, call |-> 0,
   nExch |-> 0, n401 |-> 0, nAuth |-> 0]

\* Summary of the job that settled last: ok, the credential it stored, the
\* exchange calls it sent and the 401 answers it got, and what
\* getValidToken() returned to the callers that awaited it (a
\* credential, or 0 for a failure).
NoJob == [ok |-> FALSE, tok |-> 0, nExch |-> 0, n401 |-> 0, delivered |-> {}]

\* The ids no promise in use carries.
FreeIds ==
  (1..MaxJobs) \ ({j.id : j \in jobs} \cup {refreshPromise, initJob}
                    \cup {req[c].joined : c \in Callers})

\* doRefresh() up to its first await: the cached credential is cleared.
StartDoRefresh(id, shared, starter) ==
  /\ id \in FreeIds
  /\ \A k \in FreeIds : id <= k
  /\ jobs' = jobs \cup {NewJob(id, shared, starter)}
  /\ copilotToken' = 0
  /\ expiresAt' = 0

\* refresh(), as called by a process that then awaits job jid.
refresh(jid, starter) ==
  IF ShouldJoin(refreshPromise)
  THEN /\ jid = refreshPromise
       /\ UNCHANGED <<jobs, refreshPromise, copilotToken, expiresAt>>
  ELSE /\ StartDoRefresh(jid, TRUE, starter)
       /\ refreshPromise' = StoredPromise(jid)

\* The processes awaiting job id.
Waiters(id) ==
  {c \in Callers : req[c].pc = "gvtWait" /\ req[c].joined = id}
    \cup (IF initJob = id THEN {Startup} ELSE {})

\* The responses of the exchange endpoint: {token, expires_in?} or an error
\* status.  expires_in is in seconds (0: absent); exp is the epoch second
\* embedded in the credential string as exp=E (0: absent).
ExchangeResponses ==
  {[status |-> 200, token |-> TRUE, expires_in |-> e, exp |-> 0] : e \in {0, 1800}}
    \cup {[status |-> 200, token |-> TRUE, expires_in |-> 0, exp |-> (now \div 1000) + 1800]}
    \cup {[status |-> 200, token |-> FALSE, expires_in |-> 0, exp |-> 0]}
    \cup {[status |-> s, token |-> FALSE, expires_in |-> 0, exp |-> 0] : s \in {401, 500}}

\* const expValue = data.expires_in || (token.includes('exp=') ? extractExpValue(token) : null)
ExpValue(r) == IF r.expires_in # 0 THEN r.expires_in ELSE r.exp

\* this.expiresAt = expValue ? (Date.now() + expValue * 1000) : null
ExpiresAt(r, t) == IF ExpValue(r) # 0 THEN t + ExpValue(r) * 1000 ELSE 0

\* doRefresh(): if (response.status === 401) { remove, authenticate, doRefresh }
RetriesExchange(status) == status = 401

\* The promise of job j settles: the finally of the refresh() that started it
\* clears refreshPromise, and the continuations of its waiters are queued.
Settle(j, ok, tok) ==
  /\ jobs' = jobs \ {j}
  /\ refreshPromise' = IF j.shared THEN 0 ELSE refreshPromise
  /\ lastJob' = [ok |-> ok, tok |-> tok, nExch |-> j.nExch, n401 |-> j.n401,
                 delivered |-> {}]
  /\ drain' = Waiters(j.id)

\* fetch(CONFIG.endpoints.github.copilotToken) is sent by job j.
SendExchange(j) ==
  /\ exchCalls < MaxExch
  /\ exchCalls' = exchCalls + 1
  /\ jobs' = (jobs \ {j}) \cup
       {[j EXCEPT !.pc = "exchange", !.call = exchCalls + 1, !.nExch = @ + 1]}

\* authenticate() is started by job j, which then is at position pc.
StartAuth(j, pc) ==
  /\ j.nAuth < MaxAuth
  /\ jobs' = (jobs \ {j}) \cup
       {[j EXCEPT !.pc = pc, !.nAuth = @ + 1,
                  !.n401 = IF pc = "auth401" THEN @ + 1 ELSE @]}

\* getAccessToken(): Deno.readTextFile completes.  Found: the exchange call
\* is sent.  NotFound: authenticate() starts.  (The summary of the job that
\* settled before is dropped here.)
JobRead(j) ==
  /\ drain = {}
  /\ j \in jobs /\ j.pc = "read"
  /\ IF tokenFile
     THEN SendExchange(j)
     ELSE StartAuth(j, "auth") /\ UNCHANGED exchCalls
  /\ lastJob' = NoJob
  /\ UNCHANGED <<now, tokenFile, copilotToken, expiresAt, refreshPromise,
                 provToken, req, drain>>
  /\ UNCHANGED initVars
  /\ UNCHANGED <<limiterVars, breakerVars, pollVars, sseVars>>

\* authenticate() called by getAccessToken() completes: on success the secret
\* is written and the exchange call is sent; a failure fails the refresh.
JobAuth(j, ok) ==
  /\ drain = {}
  /\ j \in jobs /\ j.pc = "auth"
  /\ IF ok
     THEN /\ tokenFile' = TRUE
          /\ SendExchange(j)
          /\ UNCHANGED <<refreshPromise, lastJob, drain>>
     ELSE /\ Settle(j, FALSE, 0)
          /\ UNCHANGED <<tokenFile, exchCalls>>
  /\ UNCHANGED <<now, copilotToken, expiresAt, provToken, req>>
  /\ UNCHANGED initVars
  /\ UNCHANGED <<limiterVars, breakerVars, pollVars, sseVars>>

\* authenticate() called after a 401 of the exchange endpoint completes: on
\* success doRefresh() calls itself (clearing the credential, reading the
\* secret again); a failure fails the refresh.
JobAuth401(j, ok) ==
  /\ drain = {}
  /\ j \in jobs /\ j.pc = "auth401"
  /\ IF ok
     THEN /\ tokenFile' = TRUE
          /\ copilotToken' = 0
          /\ expiresAt' = 0
          /\ jobs' = (jobs \ {j}) \cup {[j EXCEPT !.pc = "read"]}
          /\ UNCHANGED <<refreshPromise, lastJob, drain>>
     ELSE /\ Settle(j, FALSE, 0)
          /\ UNCHANGED <<tokenFile, copilotToken, expiresAt>>
  /\ UNCHANGED <<now, exchCalls, provToken, req>>
  /\ UNCHANGED initVars
  /\ UNCHANGED <<limiterVars, breakerVars, pollVars, sseVars>>

\* The exchange endpoint answers job j with r (status 500 stands for every
\* failure other than 401, a transport error included).  A response that
\* carries a token is stored at once; the promise settles after the debug
\* file is written.
JobExchange(j, r) ==
  /\ drain = {}
  /\ j \in jobs /\ j.pc = "exchange"
  /\ r \in ExchangeResponses
  /\ IF r.status = 200
     THEN IF r.token
          THEN /\ copilotToken' = j.call
               /\ expiresAt' = ExpiresAt(r, now)
               /\ jobs' = (jobs \ {j}) \cup {[j EXCEPT !.pc = "write"]}
               /\ UNCHANGED <<tokenFile, refreshPromise, lastJob, drain>>
          ELSE /\ Settle(j, FALSE, 0)
               /\ UNCHANGED <<tokenFile, copilotToken, expiresAt>>
     ELSE IF RetriesExchange(r.status)
          THEN /\ tokenFile' = FALSE
               /\ StartAuth(j, "auth401")
               /\ UNCHANGED <<copilotToken, expiresAt, refreshPromise, lastJob, drain>>
          ELSE /\ Settle(j, FALSE, 0)
               /\ UNCHANGED <<tokenFile, copilotToken, expiresAt>>
  /\ UNCHANGED <<now, exchCalls, provToken, req>>
  /\ UNCHANGED initVars
  /\ UNCHANGED <<limiterVars, breakerVars, pollVars, sseVars>>

\* doRefresh(): Deno.writeTextFile(CONFIG.tokenFile + ".debug") completes
\* (its failure is caught); the refresh succeeds.
JobWrite(j) ==
  /\ drain = {}
  /\ j \in jobs /\ j.pc = "write"
  /\ Settle(j, TRUE, j.call)
  /\ UNCHANGED <<now, tokenFile, copilotToken, expiresAt, exchCalls, provToken, req>>
  /\ UNCHANGED initVars
  /\ UNCHANGED <<limiterVars, breakerVars, pollVars, sseVars>>

\* ------------------------------------------------------------------------
\* CompletionProvider (src/unnamed/part_002) and getModels (src/models.ts)
\* ------------------------------------------------------------------------
\* A request.  attempt: upstream completion calls sent so far.  sent: the
\* credential carried by the call in flight (0: "Bearer null").  tok401: -1,
\* or, when the previous attempt was answered 401, the number of exchange
\* calls that had been sent when that answer arrived.  forced: how often the
\* 401 handler of createCompletion removed the secret file and asked for a
\* credential.  cached: the getValidToken() call that preceded the call in
\* flight returned the cached credential without a refresh.
NewReq ==
  [pc |-> "idle", variant |-> "none", site |-> "none", joined |-> 0,
   attempt |-> 0, err |-> NoErr, sent |-> 0, tok401 |-> -1, forced |-> 0,
   cached |-> FALSE]

\* executeWithRetry with a loop that stops one attempt early.
LoopContinues_OffByOne(attempt) == attempt < maxRetries

\* executeWithRetry: for (let attempt = 1; attempt <= CONFIG.maxRetries; attempt++)
LoopContinues(attempt) == attempt <= maxRetries

\* executeWithRetry: if (attempt < CONFIG.maxRetries) { sleep ... }
ShouldRetry(attempt) == attempt < maxRetries

\* executeWithRetry: error instanceof APIError && error.context.status === 401
IsAuthFailure(e) == e.kind \in {"ServerError", "AuthenticationError"} /\ e.status = 401

\* operation(): the upstream completion call of the next attempt is sent with
\* "authorization": `Bearer ${this.token}`.
SendRec(r, tok) ==
  [r EXCEPT !.pc = "awaitResp", !.attempt = @ + 1, !.sent = tok,
            !.site = "none", !.joined = 0]

\* The request ends: pc is "done" or "failed", err the error thrown to the
\* caller.  The bookkeeping of the attempts is dropped.
Finished(r, pc, e) ==
  [NewReq EXCEPT !.pc = pc, !.variant = r.variant, !.attempt = r.attempt, !.err = e]

\* executeWithRetry: the next iteration of the loop, or throw lastError.
NextAttempt(r, tok) ==
  IF LoopContinues(r.attempt + 1)
  THEN SendRec(r, tok)
  ELSE Finished(r, "failed", r.err)

\* executeWithRetry: catch (error) { lastError = error; ... } for the error e
\* thrown by the operation.  prov: this.token when the loop continues.
AfterThrow(r, e, prov) ==
  IF ShouldRetry(r.attempt)
  THEN [r EXCEPT !.pc = "sleep", !.err = e, !.site = "none", !.joined = 0]
  ELSE NextAttempt([r EXCEPT !.err = e], prov)

\* The code that follows "await tokenManager.getValidToken()" at call site s,
\* up to the next await.  ok: a credential tok was returned.
\*   start:  createCompletion / createStreamingCompletion, if (!this.token)
\*   on401:  the 401 handler of createCompletion (failure is caught there)
\*   retry:  the catch of executeWithRetry (failure leaves the loop)
\*   models: getModels (then the models endpoint is fetched)
AfterGvt(r, s, ok, tok, prov) ==
  CASE s = "start" ->
         IF ok THEN SendRec(r, tok)
         ELSE Finished(r, "failed", AuthenticationError(r.attempt))
    [] s = "on401" ->
         IF ok THEN [r EXCEPT !.pc = "testFetch", !.site = "none", !.joined = 0]
         ELSE AfterThrow(r, OperationCatch(ServerError(401, r.attempt)), prov)
    [] s = "retry" ->
         IF ok THEN NextAttempt(r, tok)
         ELSE Finished(r, "failed", AuthenticationError(r.attempt))
    [] OTHER ->
         IF ok THEN [r EXCEPT !.pc = "fetchModels", !.sent = tok, !.site = "none",
                              !.joined = 0]
         ELSE Finished(r, "failed", ServerError(401, 0))

\* this.token after the code that follows getValidToken() at call site s:
\* initializeClient(token) at the sites of the CompletionProvider.
ProvAfterGvt(s, ok, tok, prov) == IF ok /\ s # "models" THEN tok ELSE prov

\* getValidToken() called by c, whose record is r, at call site s.
GetValidToken(c, r, s) ==
  IF NeedsRefresh
  THEN /\ \E jid \in 1..MaxJobs :
            /\ refresh(jid, "caller")
            /\ req' = [req EXCEPT ![c] =
                 [r EXCEPT !.pc = "gvtWait", !.site = s, !.joined = jid]]
       /\ UNCHANGED provToken
  ELSE /\ req' = [req EXCEPT ![c] =
            AfterGvt([r EXCEPT !.cached = TRUE], s, TRUE, copilotToken, provToken)]
       /\ provToken' = ProvAfterGvt(s, TRUE, copilotToken, provToken)
       /\ UNCHANGED <<jobs, refreshPromise, copilotToken, expiresAt>>

\* startServer: the server listens once initialize() has returned (a throw
\* of initialize() would be caught and logged by startServer).
Listening == initPc \in {"returned", "caught", "threw"}

\* handleCompletionRequest: a request arrives and createCompletion (variant
\* "buffered") or createStreamingCompletion ("streaming") runs up to its
\* first await.
Arrive(c, v) ==
  /\ drain = {}
  /\ Listening
  /\ c \in Forwarders
  /\ req[c].pc = "idle"
  /\ LET r == [req[c] EXCEPT !.variant = v]
     IN IF provToken = 0
        THEN GetValidToken(c, r, "start")
        ELSE /\ req' = [req EXCEPT ![c] = SendRec(r, provToken)]
             /\ UNCHANGED <<provToken, jobs, refreshPromise, copilotToken, expiresAt>>
  /\ UNCHANGED <<now, tokenFile, exchCalls, lastJob, drain>>
  /\ UNCHANGED initVars
  /\ UNCHANGED <<limiterVars, breakerVars, pollVars, sseVars>>

\* getModels (with no models cached): tokenManager.getValidToken() is called.
ModelsArrive(c) ==
  /\ drain = {}
  /\ Listening
  /\ c \in ModelCallers
  /\ req[c].pc = "idle"
  /\ GetValidToken(c, [req[c] EXCEPT !.variant = "models"], "models")
  /\ UNCHANGED <<now, tokenFile, exchCalls, lastJob, drain>>
  /\ UNCHANGED initVars
  /\ UNCHANGED <<limiterVars, breakerVars, pollVars, sseVars>>

\* getModels: the models endpoint answers.
ModelsResponse(c, ok) ==
  /\ drain = {}
  /\ req[c].pc = "fetchModels"
  /\ req' = [req EXCEPT ![c] =
       Finished(req[c], IF ok THEN "done" ELSE "failed",
                IF ok THEN NoErr ELSE ServerError(500, 0))]
  /\ UNCHANGED <<now, tokenFile, exchCalls, lastJob, drain, provToken>>
  /\ UNCHANGED tmVars
  /\ UNCHANGED initVars
  /\ UNCHANGED <<limiterVars, breakerVars, pollVars, sseVars>>

\* The completions endpoint answers the attempt in flight (500 stands for
\* every failure other than 401: another status, a transport error, a body
\* that cannot be read).
CompletionResponse(c, status) ==
  /\ drain = {}
  /\ req[c].pc = "awaitResp"
  /\ LET r == [req[c] EXCEPT !.sent = 0, !.cached = FALSE]
     IN CASE status = 200 ->
               /\ req' = [req EXCEPT ![c] = Finished(r, "done", NoErr)]
               /\ UNCHANGED provToken
          [] status = 401 ->
               /\ provToken' = 0
               /\ req' = [req EXCEPT ![c] =
                    IF r.variant = "buffered"
                    THEN [r EXCEPT !.pc = "removing", !.tok401 = exchCalls]
                    ELSE AfterThrow([r EXCEPT !.tok401 = exchCalls],
                                    OperationCatch(ServerError(401, r.attempt)), 0)]
          [] OTHER ->
               /\ req' = [req EXCEPT ![c] =
                    AfterThrow([r EXCEPT !.tok401 = -1],
                               OperationCatch(ServerError(status, r.attempt)),
                               provToken)]
               /\ UNCHANGED provToken
  /\ UNCHANGED <<now, tokenFile, exchCalls, lastJob, drain>>
  /\ UNCHANGED tmVars
  /\ UNCHANGED initVars
  /\ UNCHANGED <<limiterVars, breakerVars, pollVars, sseVars>>

\* createCompletion, 401 handler: Deno.remove(CONFIG.tokenFile) completes
\* (its failure is caught), then tokenManager.getValidToken() is called.
RemoveDone(c) ==
  /\ drain = {}
  /\ req[c].pc = "removing"
  /\ tokenFile' = FALSE
  /\ GetValidToken(c, [req[c] EXCEPT !.forced = @ + 1], "on401")
  /\ UNCHANGED <<now, exchCalls, lastJob, drain>>
  /\ UNCHANGED initVars
  /\ UNCHANGED <<limiterVars, breakerVars, pollVars, sseVars>>

\* createCompletion, 401 handler: the test request to api.github.com/user
\* completes (any outcome is only logged); the ServerError carrying status
\* 401 is thrown.
TestFetchDone(c) ==
  /\ drain = {}
  /\ req[c].pc = "testFetch"
  /\ req' = [req EXCEPT ![c] =
       AfterThrow([req[c] EXCEPT !.cached = FALSE],
                  OperationCatch(ServerError(401, req[c].attempt)), provToken)]
  /\ UNCHANGED <<now, tokenFile, exchCalls, lastJob, drain, provToken>>
  /\ UNCHANGED tmVars
  /\ UNCHANGED initVars
  /\ UNCHANGED <<limiterVars, breakerVars, pollVars, sseVars>>

\* executeWithRetry: the backoff sleep ends; on an error with status 401 a
\* credential is requested first, then the next attempt is sent.
SleepDone(c) ==
  /\ drain = {}
  /\ req[c].pc = "sleep"
  /\ IF IsAuthFailure(req[c].err)
     THEN GetValidToken(c, req[c], "retry")
     ELSE /\ req' = [req EXCEPT ![c] = NextAttempt(req[c], provToken)]
          /\ UNCHANGED <<provToken, jobs, refreshPromise, copilotToken, expiresAt>>
  /\ UNCHANGED <<now, tokenFile, exchCalls, lastJob, drain>>
  /\ UNCHANGED initVars
  /\ UNCHANGED <<limiterVars, breakerVars, pollVars, sseVars>>

\* The continuation of caller c after the refresh it awaited settled:
\* getValidToken() returns this.copilotToken, or throws AuthenticationError
\* when the refresh failed or left no credential.
Resume(c) ==
  /\ c \in drain /\ c \in Callers
  /\ drain' = drain \ {c}
  /\ LET ok == lastJob.ok /\ copilotToken # 0
         r  == [req[c] EXCEPT !.cached = FALSE]
     IN /\ req' = [req EXCEPT ![c] = AfterGvt(r, r.site, ok, copilotToken, provToken)]
        /\ provToken' = ProvAfterGvt(r.site, ok, copilotToken, provToken)
        /\ lastJob' = [lastJob EXCEPT !.delivered =
                          @ \cup {IF ok THEN copilotToken ELSE 0}]
  /\ UNCHANGED <<now, tokenFile, exchCalls>>
  /\ UNCHANGED tmVars
  /\ UNCHANGED initVars
  /\ UNCHANGED <<limiterVars, breakerVars, pollVars, sseVars>>

\* ------------------------------------------------------------------------
\* TokenManager.initialize() and the refresh timer
\* ------------------------------------------------------------------------
\* initialize() with an outer catch that rethrows.
OuterCatch_Rethrow(at) == "threw"

\* initialize(): the catch that closes its body logs "Token initialization
\* failed, will retry on next request" and does not rethrow.
OuterCatch(at) == "caught"

\* startRefreshInterval(): setInterval(() => this.refresh().catch(...), 25 min)
startRefreshInterval(ts, t) == Append(ts, t + RefreshIntervalMs)

\* initialize() ends in the outer catch, thrown to from position at.
InitFails(at) ==
  /\ initPc' = OuterCatch(at)
  /\ initJob' = 0

\* initialize() calls refresh() and awaits it at position next.
InitRefresh(next) ==
  /\ \E jid \in 1..MaxJobs : refresh(jid, "init") /\ initJob' = jid
  /\ initPc' = next

\* Deno.stat(CONFIG.tokenFile) completes: the file exists (it is read and
\* tested against api.github.com/user), is not found (authenticate() starts),
\* or stat fails otherwise.
InitStat(ioError) ==
  /\ drain = {}
  /\ initPc = "stat"
  /\ IF ioError
     THEN InitFails("stat")
     ELSE /\ initPc' = IF tokenFile THEN "test" ELSE "auth0"
          /\ UNCHANGED initJob
  /\ UNCHANGED <<now, tokenFile, exchCalls, lastJob, timers, provToken, req, drain>>
  /\ UNCHANGED tmVars
  /\ UNCHANGED <<limiterVars, breakerVars, pollVars, sseVars>>

\* authenticate() of the "no token file" branch completes.
InitAuth0(ok) ==
  /\ drain = {}
  /\ initPc = "auth0"
  /\ IF ok
     THEN /\ tokenFile' = TRUE
          /\ initPc' = "test"
          /\ UNCHANGED initJob
     ELSE /\ InitFails("auth0")
          /\ UNCHANGED tokenFile
  /\ UNCHANGED <<now, exchCalls, lastJob, timers, provToken, req, drain>>
  /\ UNCHANGED tmVars
  /\ UNCHANGED <<limiterVars, breakerVars, pollVars, sseVars>>

\* The test request to api.github.com/user completes with status r (0: fetch
\* threw).  429 and 5xx: sleep, then "return await this.doRefresh()".  Another
\* failure status: the file is removed and authenticate() starts.  Otherwise
\* refresh() is called.
InitTest(r) ==
  /\ drain = {}
  /\ initPc = "test"
  /\ CASE r \in {429, 500} ->
            /\ \E jid \in 1..MaxJobs : StartDoRefresh(jid, FALSE, "init") /\ initJob' = jid
            /\ initPc' = "direct"
            /\ UNCHANGED <<refreshPromise, tokenFile>>
       [] r = 403 ->
            /\ tokenFile' = FALSE
            /\ initPc' = "reauth"
            /\ UNCHANGED <<initJob, jobs, refreshPromise, copilotToken, expiresAt>>
       [] OTHER ->
            /\ InitRefresh("refresh1")
            /\ UNCHANGED <<tokenFile>>
  /\ UNCHANGED <<now, exchCalls, lastJob, timers, provToken, req, drain>>
  /\ UNCHANGED <<limiterVars, breakerVars, pollVars, sseVars>>

\* authenticate() after a failed token test completes; its failure is caught
\* ("Will try to use the token anyway"), then refresh() is called.
InitReauth(ok) ==
  /\ drain = {}
  /\ initPc = "reauth"
  /\ tokenFile' = (ok \/ tokenFile)
  /\ InitRefresh("refresh1")
  /\ UNCHANGED <<now, exchCalls, lastJob, timers, provToken, req, drain>>
  /\ UNCHANGED <<limiterVars, breakerVars, pollVars, sseVars>>

\* authenticate() after the second refresh failed completes.
InitAuth2(ok) ==
  /\ drain = {}
  /\ initPc = "auth2"
  /\ IF ok
     THEN /\ tokenFile' = TRUE
          /\ InitRefresh("refresh3")
     ELSE /\ InitFails("auth2")
          /\ UNCHANGED <<tokenFile, jobs, refreshPromise, copilotToken, expiresAt>>
  /\ UNCHANGED <<now, exchCalls, lastJob, timers, provToken, req, drain>>
  /\ UNCHANGED <<limiterVars, breakerVars, pollVars, sseVars>>

\* The continuation of initialize() after the refresh it awaited settled.
ResumeInit ==
  /\ Startup \in drain
  /\ drain' = drain \ {Startup}
  /\ CASE initPc = "direct" ->
            IF lastJob.ok
            THEN /\ initPc' = "returned"
                 /\ initJob' = 0
                 /\ UNCHANGED <<timers, tokenFile, jobs, refreshPromise, copilotToken,
                                expiresAt>>
            ELSE /\ InitRefresh("refresh1")
                 /\ UNCHANGED <<timers, tokenFile>>
       [] initPc = "refresh1" ->
            IF lastJob.ok
            THEN /\ timers' = startRefreshInterval(timers, now)
                 /\ InitRefresh("refresh2")
                 /\ UNCHANGED <<tokenFile>>
            ELSE /\ InitFails("refresh1")
                 /\ UNCHANGED <<timers, tokenFile, jobs, refreshPromise, copilotToken,
                                expiresAt>>
       [] initPc = "refresh2" ->
            IF lastJob.ok
            THEN /\ timers' = startRefreshInterval(timers, now)
                 /\ initPc' = "returned"
                 /\ initJob' = 0
                 /\ UNCHANGED <<tokenFile, jobs, refreshPromise, copilotToken, expiresAt>>
            ELSE /\ tokenFile' = FALSE
                 /\ initPc' = "auth2"
                 /\ initJob' = 0
                 /\ UNCHANGED <<timers, jobs, refreshPromise, copilotToken, expiresAt>>
       [] OTHER ->
            IF lastJob.ok
            THEN /\ timers' = startRefreshInterval(timers, now)
                 /\ initPc' = "returned"
                 /\ initJob' = 0
                 /\ UNCHANGED <<tokenFile, jobs, refreshPromise, copilotToken, expiresAt>>
            ELSE /\ InitFails("refresh3")
                 /\ UNCHANGED <<timers, tokenFile, jobs, refreshPromise, copilotToken,
                                expiresAt>>
  /\ UNCHANGED <<now, exchCalls, lastJob, provToken, req>>
  /\ UNCHANGED <<limiterVars, breakerVars, pollVars, sseVars>>

\* A refresh timer fires: this.refresh().catch(console.error)
TimerFire(i) ==
  /\ drain = {}
  /\ i \in DOMAIN timers
  /\ now >= timers[i]
  /\ timers' = [timers EXCEPT ![i] = @ + RefreshIntervalMs]
  /\ \E jid \in 1..MaxJobs : refresh(jid, "timer")
  /\ UNCHANGED <<now, tokenFile, exchCalls, lastJob, initPc, initJob, provToken, req,
                 drain>>
  /\ UNCHANGED <<limiterVars, breakerVars, pollVars, sseVars>>

\* Time passes.
Tick ==
  /\ drain = {}
  /\ now < (MaxTicks + 1) * TickMs
  /\ now' = now + TickMs
  /\ UNCHANGED <<tokenFile, exchCalls, lastJob, provToken, req, drain>>
  /\ UNCHANGED tmVars
  /\ UNCHANGED initVars
  /\ UNCHANGED <<limiterVars, breakerVars, pollVars, sseVars>>

\* ------------------------------------------------------------------------
\* RateLimiter (src/utils.ts)
\* ------------------------------------------------------------------------
\* The instants, in ms after the start, at which the clock is read.
LimiterInstants == {0, 500, 999, 1000, 1500, 59999, 60000, 60500, 61000, 61500}

\* The entries of ts for which now - time < w, in order.
Within(ts, t, w) == SelectSeq(ts, LAMBDA time : t - time < w)

\* acquire() that keeps every timestamp.
Prune_None(ts, t) == ts

\* acquire(): this.timestamps.filter((time) => now - time < this.windowMs)
Prune(ts, t) == Within(ts, t, windowMs)

\* acquire(): this.timestamps.filter((time) => now - time < 1000).length
RecentCount(ts, t) == Len(Within(ts, t, burstWindowMs))

\* acquire() that admits one request more than the limit.
OverLimit_OffByOne(n) == n > requestsPerMinute

\* acquire(): this.timestamps.length >= this.limit
OverLimit(n) == n >= requestsPerMinute

\* acquire() that admits one request more than the burst limit.
OverBurst_OffByOne(n) == n > burstSize

\* acquire(): recentCount >= this.burstLimit
OverBurst(n) == n >= burstSize

\* new RateLimiter(...): no timestamp; no call was made.
LimiterInit ==
  /\ timestamps = <<>>
  /\ admitted = <<>>
  /\ acquired = "none"

\* acquire(), which has no await: it runs as one step.
Acquire ==
  /\ Len(admitted) < MaxAdmitted
  /\ LET pruned == Prune(timestamps, now)
     IN IF OverLimit(Len(pruned)) \/ OverBurst(RecentCount(pruned, now))
        THEN /\ timestamps' = pruned
             /\ acquired' = "rejected"
             /\ UNCHANGED admitted
        ELSE /\ timestamps' = Append(pruned, now)
             /\ acquired' = "admitted"
             /\ admitted' = Append(admitted, now)
  /\ UNCHANGED <<now, serverVars, sseVars, breakerVars, pollVars>>

\* Date.now() advances to a later instant.
LimiterTick ==
  /\ \E d \in LimiterInstants : d + TickMs > now /\ now' = d + TickMs
  /\ UNCHANGED <<serverVars, sseVars, limiterVars, breakerVars, pollVars>>

LimiterNext == Acquire \/ LimiterTick

\* ------------------------------------------------------------------------
\* CircuitBreaker (src/utils.ts)
\* ------------------------------------------------------------------------
\* The operations in flight are counted by kind: "closed" were admitted
\* while Closed, "probe" in the current HalfOpen period, "stale" in an
\* earlier HalfOpen period.
CallKinds == {"closed", "probe", "stale"}

NoCalls == [k \in CallKinds |-> 0]

InFlight == calls["closed"] + calls["probe"] + calls["stale"]

\* Timer handles.
Handles == 1..(MaxCalls + 2)

\* The handle setTimeout returns: one not in use.
NewHandle ==
  CHOOSE h \in Handles : h \notin {t.handle : t \in pendingResets} /\ h # resetTimeout

\* execute() that admits one probe more than halfOpenMaxCalls.
Rejects_OffByOne(state, n) ==
  state = "OPEN" \/ (state = "HALF_OPEN" /\ n > halfOpenMaxCalls)

\* execute(): the two throws of APIError("Service unavailable", 503, "CIRCUIT_OPEN")
Rejects(state, n) ==
  state = "OPEN" \/ (state = "HALF_OPEN" /\ n >= halfOpenMaxCalls)

\* recordFailure() that ignores failures while HalfOpen.
TripsOn_ClosedOnly(state, n) == state = "CLOSED" /\ n >= failureThreshold

\* recordFailure(): trip() is called when Closed with the count n reaching
\* the threshold, and when HalfOpen.
TripsOn(state, n) ==
  (state = "CLOSED" /\ n >= failureThreshold) \/ state = "HALF_OPEN"

\* trip() that schedules no timer.
Scheduled_Never(pending, h) == pending

\* trip(): setTimeout(() => {...}, this.resetTimeoutMs)
Scheduled(pending, h) == pending \cup {[handle |-> h, delay |-> resetTimeoutMs]}

\* execute() that does not count its probes.
CountProbe_Never(state, n) == n

\* execute(): if (this.state === "HALF_OPEN") { this.halfOpenCalls++; }
CountProbe(state, n) == IF state = "HALF_OPEN" THEN n + 1 ELSE n

\* trip()
trip ==
  /\ cbState' = "OPEN"
  /\ resetTimeout' = NewHandle
  /\ pendingResets' = Scheduled(pendingResets, NewHandle)

\* reset()
reset ==
  /\ cbState' = "CLOSED"
  /\ failures' = 0
  /\ halfOpenCalls' = 0
  /\ pendingResets' = {t \in pendingResets : t.handle # resetTimeout}
  /\ resetTimeout' = 0

\* recordFailure() that counts a failure in every state.
Counted_Always(state, n) == n + 1

\* recordFailure(): this.failures++ in the CLOSED branch only.
Counted(state, n) == IF state = "CLOSED" THEN n + 1 ELSE n

\* recordFailure()
recordFailure ==
  LET n == Counted(cbState, failures)
  IN /\ failures' = n
     /\ IF TripsOn(cbState, n)
        THEN trip
        ELSE UNCHANGED <<cbState, resetTimeout, pendingResets>>
     /\ UNCHANGED halfOpenCalls

\* new CircuitBreaker(5, 30000, 3)
BreakerInit ==
  /\ cbState = "CLOSED"
  /\ failures = 0
  /\ halfOpenCalls = 0
  /\ resetTimeout = 0
  /\ pendingResets = {}
  /\ calls = NoCalls
  /\ cbEvent = "none"
  /\ streak = 0
  /\ probes = 0

\* execute(fn) up to "await fn()": rejected, or fn is invoked.
Execute ==
  /\ IF Rejects(cbState, halfOpenCalls)
     THEN /\ cbEvent' = "rejected"
          /\ UNCHANGED <<cbState, failures, halfOpenCalls, resetTimeout, pendingResets,
                         calls, streak, probes>>
     ELSE /\ InFlight < MaxCalls
          /\ halfOpenCalls' = CountProbe(cbState, halfOpenCalls)
          /\ calls' = [calls EXCEPT
                         ![IF cbState = "HALF_OPEN" THEN "probe" ELSE "closed"] = @ + 1]
          /\ probes' = IF cbState = "HALF_OPEN" THEN probes + 1 ELSE probes
          /\ cbEvent' = "invoked"
          /\ UNCHANGED <<cbState, failures, resetTimeout, pendingResets, streak>>
  /\ UNCHANGED <<now, serverVars, sseVars, limiterVars, pollVars>>

\* execute(fn) after "await fn()": fn of an operation of kind k returned
\* (ok) or threw.
Complete(k, ok) ==
  /\ k \in CallKinds
  /\ calls[k] > 0
  /\ calls' = [calls EXCEPT ![k] = @ - 1]
  /\ IF ok
     THEN /\ IF cbState = "HALF_OPEN"
             THEN reset
             ELSE UNCHANGED <<cbState, failures, halfOpenCalls, resetTimeout,
                              pendingResets>>
          /\ streak' = 0
          /\ cbEvent' = "success"
     ELSE /\ recordFailure
          /\ streak' = IF cbState # "CLOSED" THEN streak
                       ELSE IF streak < failureThreshold THEN streak + 1
                       ELSE streak
          /\ cbEvent' = "failure"
  /\ UNCHANGED <<probes, now, serverVars, sseVars, limiterVars, pollVars>>

\* The callback of the setTimeout of trip() runs.
ResetTimerFires(h) ==
  /\ \E t \in pendingResets : t.handle = h
  /\ pendingResets' = {t \in pendingResets : t.handle # h}
  /\ cbState' = "HALF_OPEN"
  /\ halfOpenCalls' = 0
  /\ calls' = [calls EXCEPT !["stale"] = @ + calls["probe"], !["probe"] = 0]
  /\ probes' = 0
  /\ cbEvent' = "timer"
  /\ UNCHANGED <<failures, resetTimeout, streak, now, serverVars, sseVars, limiterVars, pollVars>>

BreakerNext ==
  \/ Execute
  \/ \E k \in CallKinds, ok \in BOOLEAN : Complete(k, ok)
  \/ \E h \in Handles : ResetTimerFires(h)

\* ------------------------------------------------------------------------
\* TokenManager.pollForToken (src/models.ts)
\* ------------------------------------------------------------------------
\* The responses of the device code endpoint polled for: interval and
\* expires_in in seconds; device_code present or not.
DeviceCodeResponses ==
  {[interval |-> i, expires_in |-> e, device_code |-> dc] :
     i \in {1, 5}, e \in {12, 20}, dc \in BOOLEAN}

NoSession == [interval |-> 0, expires_in |-> 0, device_code |-> FALSE, startTime |-> 0]

\* The answers to a poll:
\*   network_error          fetch throws
\*   bad_json               the body is not JSON (any status)
\*   http_428               status 428
\*   http_error             another status that is not ok
\*   authorization_pending, slow_down, access_denied, expired_token
\*                          status ok, data.error
\*   no_token               status ok, neither error nor access_token
\*   token                  status ok, access_token
PollAnswers ==
  {"network_error", "bad_json", "http_428", "http_error", "authorization_pending",
   "slow_down", "access_denied", "expired_token", "no_token", "token"}

\* The answers with data.error set to a name other than authorization_pending
\* and slow_down.
NamedErrors == {"access_denied", "expired_token"}

\* pollForToken that goes on polling after a named error.
PollOutcome_ErrorsTransient(r) ==
  CASE r = "token" -> "approved"
    [] r \in {"http_error", "no_token"} -> "denied"
    [] OTHER -> "sleep"

\* What the loop does with answer r.
PollOutcome(r) ==
  CASE r \in {"network_error", "bad_json", "http_428", "authorization_pending",
              "slow_down"} -> "sleep"
    [] r = "token" -> "approved"
    [] OTHER -> "denied"

\* pollForToken that sleeps the interval after slow_down.
WaitAfter_NoDouble(r, interval) == interval

\* The argument of the sleep that follows answer r: interval, or
\* interval * 2 after slow_down.
WaitAfter(r, interval) == IF r = "slow_down" THEN interval * 2 ELSE interval

\* debug(`Poll response [${response.status}]: ${JSON.stringify(data)}`): how
\* much of the long-lived secret the line written for answer r shows.  The
\* line is written for every body that parses, before the body is looked at;
\* the body of the answer with the token holds access_token.
DebugShows(r) == IF r = "token" THEN "complete" ELSE "none"

\* The AuthenticationError thrown for answer r: its message and details.
\*   status   "Token polling failed with status ...", {status, response}
\*   a name   "Token polling failed: <name>", {error: <name>, description}
\*   no_token "No access token in response", {response}
PollThrows(r) ==
  CASE r = "http_error" -> "status"
    [] r \in NamedErrors -> r
    [] r = "no_token" -> "no_token"
    [] OTHER -> "none"

\* authenticate() that gives up when the test call to api.github.com/user
\* fails.
TestFetchContinues_OnlyOk(ok) == ok

\* authenticate(): the result of the test call is logged only; the secret is
\* written whatever it was.
TestFetchContinues(ok) == TRUE

\* authenticate() after pollForToken() ended with out: the test call is
\* sent, or the error leaves authenticate().
AfterPolling(out) ==
  CASE out = "approved" -> "testFetch"
    [] out \in {"denied", "expired"} -> "failed"
    [] OTHER -> "polling"

\* pollForToken that still polls at the deadline itself.
PollingOpen_Inclusive(sess, t) == t - sess.startTime <= sess.expires_in * 1000

\* pollForToken that does not wait between two polls.
IntervalMs_Zero(sess) == 0

\* const interval = deviceCodeResponse.interval * 1000
IntervalMs(sess) == sess.interval * 1000

\* while (Date.now() - startTime < expiresIn)
PollingOpen(sess, t) == t - sess.startTime < sess.expires_in * 1000

\* No polling session.
PollInit ==
  /\ pollPc = "idle"
  /\ pollSession = NoSession
  /\ pollWait = 0
  /\ pollLog = <<>>
  /\ polls = 0
  /\ progressInterval = FALSE
  /\ pollError = "none"
  /\ authPc = "idle"
  /\ stored = FALSE

\* The loop condition is evaluated at time t: the next poll is sent, or the
\* loop ends and the timeout error is thrown (finally: clearInterval).
PollLoop(sess, t) ==
  IF PollingOpen(sess, t)
  THEN /\ polls < MaxPolls
       /\ pollPc' = "request"
       /\ polls' = polls + 1
       /\ progressInterval' = TRUE
       /\ authPc' = "polling"
       /\ UNCHANGED pollError
  ELSE /\ pollPc' = "expired"
       /\ progressInterval' = FALSE
       /\ pollError' = "timeout"
       /\ authPc' = AfterPolling("expired")
       /\ UNCHANGED polls

\* authenticate() is called: the device code request is sent.
AuthBegin ==
  /\ authPc = "idle"
  /\ authPc' = "deviceCode"
  /\ UNCHANGED <<pollPc, pollSession, pollWait, pollLog, polls, progressInterval,
                 pollError, stored, now, serverVars, sseVars, limiterVars, breakerVars>>

\* getDeviceCode(): the request fails (status not ok, or fetch throws) and
\* the error leaves authenticate().
DeviceCodeFails ==
  /\ authPc = "deviceCode"
  /\ authPc' = "failed"
  /\ pollError' = "device_code"
  /\ UNCHANGED <<pollPc, pollSession, pollWait, pollLog, polls, progressInterval,
                 stored, now, serverVars, sseVars, limiterVars, breakerVars>>

\* getDeviceCode() returns d and pollForToken(d) is called: without a device
\* code it throws; otherwise the progress timer is set and the first poll is
\* sent.
PollBegin(d) ==
  /\ authPc = "deviceCode"
  /\ pollPc = "idle"
  /\ d \in DeviceCodeResponses
  /\ pollSession' = [interval |-> d.interval, expires_in |-> d.expires_in,
                     device_code |-> d.device_code, startTime |-> now]
  /\ IF d.device_code
     THEN PollLoop(pollSession', now)
     ELSE /\ pollPc' = "denied"
          /\ pollError' = "missing_device_code"
          /\ authPc' = AfterPolling("denied")
          /\ UNCHANGED <<polls, progressInterval>>
  /\ UNCHANGED <<pollWait, pollLog, stored, now, serverVars, sseVars, limiterVars, breakerVars>>

\* The poll in flight is answered with r after dt ms.
PollAnswer(r, dt) ==
  /\ pollPc = "request"
  /\ r \in PollAnswers
  /\ now' = now + dt
  /\ LET out == PollOutcome(r)
         w   == IF out = "sleep" THEN WaitAfter(r, IntervalMs(pollSession)) ELSE 0
     IN /\ pollPc' = out
        /\ pollWait' = w
        /\ pollLog' = Append(pollLog, [r |-> r, wait |-> w, secret |-> DebugShows(r)])
        /\ progressInterval' = (out = "sleep")
        /\ pollError' = IF out = "denied" THEN PollThrows(r) ELSE "none"
        /\ authPc' = AfterPolling(out)
  /\ UNCHANGED <<pollSession, polls, stored, serverVars, sseVars, limiterVars, breakerVars>>

\* The sleep ends, late ms after its duration; the loop condition is
\* evaluated.
PollWake(late) ==
  /\ pollPc = "sleep"
  /\ now' = now + pollWait + late
  /\ PollLoop(pollSession, now')
  /\ pollWait' = 0
  /\ UNCHANGED <<pollSession, pollLog, stored, serverVars, sseVars, limiterVars, breakerVars>>

\* authenticate(): the test call to api.github.com/user is answered (ok) or
\* fails; Deno.writeTextFile(CONFIG.tokenFile, accessToken) is started.
AuthTested(ok) ==
  /\ authPc = "testFetch"
  /\ IF TestFetchContinues(ok)
     THEN authPc' = "write" /\ UNCHANGED pollError
     ELSE authPc' = "failed" /\ pollError' = "test_call"
  /\ UNCHANGED <<pollPc, pollSession, pollWait, pollLog, polls, progressInterval,
                 stored, now, serverVars, sseVars, limiterVars, breakerVars>>

\* authenticate(): the secret is written and authenticate() returns it.
AuthWritten ==
  /\ authPc = "write"
  /\ stored' = TRUE
  /\ authPc' = "returned"
  /\ UNCHANGED <<pollPc, pollSession, pollWait, pollLog, polls, progressInterval,
                 pollError, now, serverVars, sseVars, limiterVars, breakerVars>>

PollNext ==
  \/ AuthBegin
  \/ DeviceCodeFails
  \/ \E ok \in BOOLEAN : AuthTested(ok)
  \/ AuthWritten
  \/ \E d \in DeviceCodeResponses : PollBegin(d)
  \/ \E r \in PollAnswers, dt \in {0, 1000} : PollAnswer(r, dt)
  \/ \E late \in {0, 500} : PollWake(late)

\* ------------------------------------------------------------------------
\* Reading the upstream event stream (src/unnamed/part_002)
\* ------------------------------------------------------------------------
\* The lines of an upstream body, by what they hold:
\*   a, b     data: {"choices":[{"text":"a"}]}
\*   notext   data: {"choices":[{}]}         (JSON without text)
\*   bad      data: {"choices":               (not JSON)
\*   done     data: [DONE]
\*   other    a line that does not start with "data: "
LineKinds == {"a", "b", "notext", "bad", "done", "other"}

\* The bodies of up to MaxLines lines.
Bodies == UNION {[1..n -> LineKinds] : n \in 0..MaxLines}

\* The part of a line that one chunk holds when the line is spread over two
\* chunks: neither part is JSON after "data: ", nor equal to "data: [DONE]".
PartOfLine == "part"

\* JSON.parse(line.slice(6)) succeeds for a line that starts with "data: ".
Parses(k) == k \in {"a", "b", "notext"}

\* What a line adds.  Buffered: fullText += data.choices[0].text if
\* data.choices?.[0]?.text; streaming: controller.enqueue(data).
Emits(mode, k) ==
  IF mode = "buffered" THEN Parses(k) /\ k # "notext" ELSE Parses(k)

\* for (const line of lines): the lines of one chunk from the i-th on, added
\* to out, up to the line data: [DONE].
RECURSIVE Scan(_, _, _, _)
Scan(mode, pieces, i, out) ==
  IF i > Len(pieces) THEN [out |-> out, done |-> FALSE]
  ELSE IF pieces[i] = "done" THEN [out |-> out, done |-> TRUE]
  ELSE Scan(mode, pieces, i + 1,
            IF Emits(mode, pieces[i]) THEN Append(out, pieces[i]) ELSE out)

\* createCompletion that returns the accumulated text as it is.
TextOrPlaceholder_Raw(text) == text

\* createCompletion: text: fullText || "\r"
TextOrPlaceholder(text) == IF text = <<>> THEN <<"\r">> ELSE text

\* The lines of body before the first data: [DONE] line.
RECURSIVE BeforeDone(_)
BeforeDone(body) ==
  IF body = <<>> \/ Head(body) = "done" THEN <<>>
  ELSE <<Head(body)>> \o BeforeDone(Tail(body))

\* No upstream response is being read.
SseInit ==
  /\ ssePc = "idle"
  /\ sseMode = "none"
  /\ sseBody = <<>>
  /\ ssePos = 1
  /\ sseTail = FALSE
  /\ sseOut = <<>>
  /\ sseClosed = 0
  /\ sseResult = <<>>
  /\ sseAttempt = 0
  /\ sseSlept = <<>>
  /\ sseLocks = 0

\* The reading ends: createCompletion returns the text; the stream of
\* createStreamingCompletion is closed.
SseFinish(out) ==
  /\ ssePc' = "returned"
  /\ sseLocks' = sseLocks - 1
  /\ sseResult' = IF sseMode' = "buffered" THEN TextOrPlaceholder(out) ELSE <<>>
  /\ sseClosed' = IF sseMode' = "streaming" THEN sseClosed + 1 ELSE sseClosed

\* executeWithRetry with the same delay before every attempt.
Backoff_Fixed(attempt) == 1000

\* executeWithRetry: Math.min(1000 * Math.pow(2, attempt - 1), 5000)
Backoff(attempt) ==
  LET d == 1000 * 2 ^ (attempt - 1) IN IF d < 5000 THEN d ELSE 5000

\* createStreamingCompletion that reads the body before it returns.
Handed_Never(mode) == FALSE

\* The operation passed to executeWithRetry has returned when the body is
\* read: createStreamingCompletion returns the ReadableStream whose start()
\* reads; createCompletion reads inside the operation.
Handed(mode) == mode = "streaming"

\* executeWithRetry: the operation of this attempt threw.  Below the last
\* attempt the delay is slept; after the last the error is thrown.
SseThrow ==
  IF ShouldRetry(sseAttempt)
  THEN /\ ssePc' = "sleep"
       /\ sseSlept' = Append(sseSlept, Backoff(sseAttempt))
  ELSE /\ ssePc' = "failed"
       /\ UNCHANGED sseSlept

\* createCompletion (buffered) or createStreamingCompletion (streaming) is
\* called and executeWithRetry sends the first upstream call.
SseCall(mode) ==
  /\ ssePc = "idle"
  /\ mode \in {"buffered", "streaming"}
  /\ ssePc' = "calling"
  /\ sseMode' = mode
  /\ sseAttempt' = 1
  /\ UNCHANGED <<sseBody, ssePos, sseTail, sseOut, sseClosed, sseResult, sseSlept,
                 sseLocks>>
  /\ UNCHANGED <<now, serverVars, limiterVars, breakerVars, pollVars>>

\* The upstream call fails: fetch throws or the status is not ok.
SseRefused ==
  /\ ssePc = "calling"
  /\ SseThrow
  /\ UNCHANGED <<sseMode, sseBody, ssePos, sseTail, sseOut, sseClosed, sseResult,
                 sseAttempt, sseLocks>>
  /\ UNCHANGED <<now, serverVars, limiterVars, breakerVars, pollVars>>

\* The sleep of executeWithRetry ends and the next upstream call is sent.
SseRetry ==
  /\ ssePc = "sleep"
  /\ LoopContinues(sseAttempt + 1)
  /\ ssePc' = "calling"
  /\ sseAttempt' = sseAttempt + 1
  /\ UNCHANGED <<sseMode, sseBody, ssePos, sseTail, sseOut, sseClosed, sseResult,
                 sseSlept, sseLocks>>
  /\ UNCHANGED <<now, serverVars, limiterVars, breakerVars, pollVars>>

\* The upstream answers ok with body b: the reader is obtained and the
\* reading starts, with nothing accumulated.
SseOpen(b) ==
  /\ ssePc = "calling"
  /\ b \in Bodies
  /\ ssePc' = "reading"
  /\ sseBody' = b
  /\ ssePos' = 1
  /\ sseTail' = FALSE
  /\ sseOut' = <<>>
  /\ sseLocks' = sseLocks + 1
  /\ UNCHANGED <<sseMode, sseClosed, sseResult, sseAttempt, sseSlept>>
  /\ UNCHANGED <<now, serverVars, limiterVars, breakerVars, pollVars>>

\* reader.read() rejects.  Streaming: controller.error(error), and finally
\* releases the reader; the chunks enqueued stay with the caller.  Buffered:
\* the error leaves the loop for the catch of the operation, past
\* reader.releaseLock(), and executeWithRetry catches the ServerError thrown
\* there; the text accumulated by the operation is lost with it.
SseReadError ==
  /\ ssePc = "reading"
  /\ IF Handed(sseMode)
     THEN /\ ssePc' = "errored"
          /\ sseLocks' = sseLocks - 1
          /\ UNCHANGED <<sseSlept, sseBody, ssePos, sseTail, sseOut>>
     ELSE /\ SseThrow
          /\ sseBody' = <<>>
          /\ ssePos' = 1
          /\ sseTail' = FALSE
          /\ sseOut' = <<>>
          /\ UNCHANGED sseLocks
  /\ UNCHANGED <<sseMode, sseClosed, sseResult, sseAttempt>>
  /\ UNCHANGED <<now, serverVars, limiterVars, breakerVars, pollVars>>

\* reader.read() returns a chunk: the rest of the line the chunk before
\* ended in, if any, then n whole lines, then, if cut, the beginning of one
\* more line.
SseRead(n, cut) ==
  /\ ssePc = "reading"
  /\ ssePos + n - 1 + (IF cut THEN 1 ELSE 0) <= Len(sseBody)
  /\ n >= 1 \/ cut \/ sseTail
  /\ LET pieces == (IF sseTail THEN <<PartOfLine>> ELSE <<>>)
                     \o SubSeq(sseBody, ssePos, ssePos + n - 1)
                     \o (IF cut THEN <<PartOfLine>> ELSE <<>>)
         r == Scan(sseMode, pieces, 1, sseOut)
     IN /\ sseOut' = r.out
        /\ sseMode' = sseMode
        /\ IF r.done
           THEN SseFinish(r.out)
           ELSE UNCHANGED <<ssePc, sseResult, sseClosed, sseLocks>>
  /\ ssePos' = ssePos + n + (IF cut THEN 1 ELSE 0)
  /\ sseTail' = cut
  /\ UNCHANGED <<sseBody, sseAttempt, sseSlept>>
  /\ UNCHANGED <<now, serverVars, limiterVars, breakerVars, pollVars>>

\* reader.read() returns done: the body has ended.
SseEof ==
  /\ ssePc = "reading"
  /\ ssePos > Len(sseBody)
  /\ ~sseTail
  /\ sseMode' = sseMode
  /\ SseFinish(sseOut)
  /\ UNCHANGED <<sseBody, ssePos, sseTail, sseOut, sseAttempt, sseSlept>>
  /\ UNCHANGED <<now, serverVars, limiterVars, breakerVars, pollVars>>

SseNext ==
  \/ \E mode \in {"buffered", "streaming"} : SseCall(mode)
  \/ SseRefused
  \/ SseRetry
  \/ \E b \in Bodies : SseOpen(b)
  \/ SseReadError
  \/ \E n \in 0..MaxLines, cut \in BOOLEAN : SseRead(n, cut)
  \/ SseEof

\* ------------------------------------------------------------------------
Init ==
  /\ now = TickMs
  /\ tokenFile \in BOOLEAN
  /\ copilotToken = 0
  /\ expiresAt = 0
  /\ refreshPromise = 0
  /\ jobs = {}
  /\ exchCalls = 0
  /\ lastJob = NoJob
  /\ timers = <<>>
  /\ initPc = "stat"
  /\ initJob = 0
  /\ provToken = 0
  /\ req = [c \in Callers |-> NewReq]
  /\ drain = {}
  /\ LimiterInit
  /\ BreakerInit
  /\ PollInit
  /\ SseInit

Next ==
  \/ \E j \in jobs : JobRead(j)
  \/ \E j \in jobs, ok \in BOOLEAN : JobAuth(j, ok)
  \/ \E j \in jobs, ok \in BOOLEAN : JobAuth401(j, ok)
  \/ \E j \in jobs, r \in ExchangeResponses : JobExchange(j, r)
  \/ \E j \in jobs : JobWrite(j)
  \/ \E ioError \in BOOLEAN : InitStat(ioError)
  \/ \E ok \in BOOLEAN : InitAuth0(ok)
  \/ \E r \in {0, 200, 403, 429, 500} : InitTest(r)
  \/ \E ok \in BOOLEAN : InitReauth(ok)
  \/ \E ok \in BOOLEAN : InitAuth2(ok)
  \/ ResumeInit
  \/ \E i \in 1..3 : TimerFire(i)
  \/ Tick
  \/ \E c \in Callers, v \in {"buffered", "streaming"} : Arrive(c, v)
  \/ \E c \in Callers : ModelsArrive(c)
  \/ \E c \in Callers, ok \in BOOLEAN : ModelsResponse(c, ok)
  \/ \E c \in Callers, s \in {200, 401, 500} : CompletionResponse(c, s)
  \/ \E c \in Callers : RemoveDone(c)
  \/ \E c \in Callers : TestFetchDone(c)
  \/ \E c \in Callers : SleepDone(c)
  \/ \E c \in Callers : Resume(c)

Spec == Init /\ [][Next]_vars

\* The server as constructed and not started, with the secret stored.
GuardInit == Init /\ tokenFile = TRUE

\* The rate limiter alone: acquire() calls under an advancing clock.
LimiterSpec == GuardInit /\ [][LimiterNext]_vars

\* The circuit breaker alone: concurrent execute() calls and its timer.
BreakerSpec == GuardInit /\ [][BreakerNext]_vars

\* The circuit breaker with its timer callbacks eventually run.
BreakerLive == BreakerSpec /\ WF_vars(\E h \in Handles : ResetTimerFires(h))

\* One device polling session.
PollSpec == GuardInit /\ [][PollNext]_vars

\* The device flow where every poll sent is answered (fetch settles) and
\* every sleep ends (the timer of sleep() fires).
PollLive ==
  /\ PollSpec
  /\ WF_vars(\E r \in PollAnswers, dt \in {0, 1000} : PollAnswer(r, dt))
  /\ WF_vars(\E late \in {0, 500} : PollWake(late))

\* The reading of one upstream body, by itself.
SseSpec == GuardInit /\ [][SseNext]_vars

\* ------------------------------------------------------------------------
\* Properties
\* ------------------------------------------------------------------------
\* The step is one in which caller c calls tokenManager.getValidToken().
GvtCall(c) ==
  \/ /\ c \in Forwarders
     /\ req[c].pc = "idle" /\ provToken = 0 /\ req'[c].pc # "idle"
  \/ /\ c \in Forwarders
     /\ req[c].pc = "removing" /\ req'[c].pc # "removing"
  \/ /\ c \in Forwarders
     /\ req[c].pc = "sleep" /\ IsAuthFailure(req[c].err) /\ req'[c].pc # "sleep"
  \/ /\ c \in ModelCallers
     /\ req[c].pc = "idle" /\ req'[c].pc # "idle"

\* The credential the last getValidToken() call of c returned.
GvtReturned(c) == IF req[c].pc = "testFetch" THEN provToken ELSE req[c].sent

\* The step is one in which caller c sends an upstream completion call.
SendsCompletion(c) ==
  /\ c \in Forwarders
  /\ req'[c].pc = "awaitResp"
  /\ req'[c].attempt = req[c].attempt + 1

\* The refreshes started by refresh() that are in flight.
SharedJobs == {j \in jobs : j.shared}

\* C1 (as amended): callers of getValidToken() that wait at the same time
\* wait for one and the same refresh operation; that operation has at most
\* one exchange call in flight, sends no exchange call when the secret cannot
\* be obtained and otherwise one call plus one more after each 401 answer;
\* and all callers that awaited it got the same credential or all failed.
C1_SingleFlight ==
  /\ Cardinality(SharedJobs) <= 1
  /\ \A c \in Callers :
       req[c].pc = "gvtWait" =>
         \/ c \in drain
         \/ /\ req[c].joined = refreshPromise
            /\ \E j \in SharedJobs : j.id = req[c].joined
  /\ \A j \in jobs : j.nExch \in {j.n401, j.n401 + 1}
  /\ lastJob.nExch \in {lastJob.n401, lastJob.n401 + 1}
  /\ lastJob.ok => lastJob.nExch = lastJob.n401 + 1
  /\ lastJob.delivered \subseteq {IF lastJob.ok THEN lastJob.tok ELSE 0}

\* C1, witness: a forwarded request and a models request waited for the same
\* refresh, whose first exchange call was answered 401, and both got the
\* credential of its second exchange call.
C1_Witness ==
  /\ lastJob.ok /\ lastJob.n401 = 1 /\ lastJob.nExch = 2
  /\ lastJob.delivered = {lastJob.tok}
  /\ \A c \in Callers :
       /\ req[c].pc \in {"awaitResp", "fetchModels"}
       /\ ~req[c].cached
       /\ req[c].sent = lastJob.tok

\* C1 (as stated): a refresh that getValidToken() callers wait for makes
\* exactly one exchange call: never more than one while it runs, and one
\* when it has settled.
C1_Original ==
  /\ \A j \in jobs :
       (\E c \in Callers : req[c].pc = "gvtWait" /\ req[c].joined = j.id)
         => j.nExch <= 1
  /\ drain \cap Callers # {} => lastJob.nExch = 1

\* C2: getValidToken() returns the cached credential, with no refresh started
\* and no exchange call sent, when a credential is present and the time is
\* more than 5 minutes before its expiresAt; in every other case the caller
\* waits for a refresh in flight before it returns.
C2_CachedOrRefresh ==
  [][\A c \in Callers :
       GvtCall(c) =>
         IF copilotToken # 0 /\ expiresAt # 0 /\ now < expiresAt - 5 * 60 * 1000
         THEN /\ req'[c].cached
              /\ GvtReturned(c)' = copilotToken
              /\ UNCHANGED <<jobs, refreshPromise, exchCalls, copilotToken, expiresAt>>
         ELSE /\ req'[c].pc = "gvtWait"
              /\ \E j \in jobs' : j.id = req'[c].joined]_vars

\* C2, witness: a call in flight carries a credential that getValidToken()
\* returned from the cache.
C2_Witness ==
  \E c \in Callers :
    /\ req[c].pc \in {"awaitResp", "fetchModels"}
    /\ req[c].cached
    /\ req[c].sent = copilotToken
    /\ copilotToken # 0
    /\ now < expiresAt - 5 * 60 * 1000

\* C3: one refresh performs at most two exchange calls, and runs the removal
\* of the secret and the device authorization that answer a 401 at most
\* once.
C3_AtMostTwoExchanges ==
  \A j \in jobs : j.nExch <= 2 /\ j.n401 <= 1

\* C4: at most one exchange call is in flight at any time, whatever the
\* interleaving of the refresh timers, the requests and the startup path.
C4_OneExchangeInFlight ==
  Cardinality({j \in jobs : j.pc = "exchange"}) <= 1

\* C4, witness: a refresh started by a timer has its exchange call in flight
\* while a request waits for it.
C4_Witness ==
  \E j \in jobs :
    /\ j.pc = "exchange"
    /\ j.starter = "timer"
    /\ \E c \in Callers : req[c].pc = "gvtWait" /\ req[c].joined = j.id

\* C5: while the cached credential has unknown expiry (expiresAt is null),
\* a getValidToken() call keeps it: the call starts no refresh and the
\* credential is not cleared.
C5_UnknownExpiryIsKept ==
  [][\A c \in Callers :
       (GvtCall(c) /\ copilotToken # 0 /\ expiresAt = 0) =>
          /\ copilotToken' = copilotToken
          /\ jobs' = jobs]_vars

\* C6: initialize() never throws, and once it has ended a getValidToken()
\* call made with no credential cached waits for a refresh in flight.
C6_InitializeNeverFails ==
  [][/\ initPc' # "threw"
     /\ \A c \in Callers :
          (GvtCall(c) /\ copilotToken = 0) =>
             /\ Listening
             /\ req'[c].pc = "gvtWait"
             /\ \E j \in jobs' : j.id = req'[c].joined]_vars

\* C6, witness: initialize() ended in its outer catch, no credential is
\* cached, and a request waits for the refresh it started.
C6_Witness ==
  /\ initPc = "caught"
  /\ \E c \in Callers :
       /\ req[c].pc = "gvtWait"
       /\ \E j \in jobs : j.id = req[c].joined /\ j.starter = "caller"

\* C7: the attempt that follows an attempt answered 401 carries a credential
\* produced by an exchange call made after that answer.
C7_RefreshBeforeNextAttempt ==
  \A c \in Forwarders :
    (req[c].pc = "awaitResp" /\ req[c].tok401 >= 0) => req[c].sent > req[c].tok401

\* C8: within one forwarded request the 401 handler removes the stored
\* secret and asks for a credential at most once.
C8_OneForcedRefresh ==
  \A c \in Forwarders : req[c].forced <= 1

\* C9: a forwarded request makes at most maxRetries completion calls; it
\* waits for another attempt only while attempts remain; and it fails, once
\* an attempt was made, only after maxRetries attempts, with the last
\* attempt's error as a ServerError.
C9_BoundedRetries ==
  \A c \in Forwarders :
    /\ req[c].attempt <= maxRetries
    /\ req[c].pc = "sleep" => req[c].attempt < maxRetries
    /\ (req[c].pc = "failed" /\ req[c].attempt = 0) =>
          req[c].err.kind = "AuthenticationError"
    /\ (req[c].pc = "failed" /\ req[c].attempt > 0) =>
          /\ req[c].attempt = maxRetries
          /\ req[c].err = ServerError(500, maxRetries)

\* C9, witness: a forwarded request failed after maxRetries completion calls.
C9_Witness ==
  \E c \in Forwarders :
    /\ req[c].pc = "failed"
    /\ req[c].attempt = maxRetries
    /\ req[c].err.kind = "ServerError"

\* C10: every completion call carries, when it is sent, a credential that is
\* not null and is the current credential of the TokenManager.
C10_CurrentCredentialSent ==
  [][\A c \in Callers :
       SendsCompletion(c) =>
          /\ req'[c].sent # 0
          /\ req'[c].sent = copilotToken']_vars

\* C11: a completion call is in flight only for a request that the rate
\* limiter admitted and that runs as an operation of the circuit breaker.
C11_AdmittedBeforeForward ==
  \A c \in Forwarders :
    req[c].pc = "awaitResp" => (acquired = "admitted" /\ InFlight > 0)

\* C12: while Closed, the breaker moves to Open only when failureThreshold
\* failures were recorded in a row (a success in between starts the count
\* again).
C12_TripsOnConsecutiveFailures ==
  [][(cbState = "CLOSED" /\ cbState' = "OPEN") => streak' >= failureThreshold]_vars

\* C13: while the circuit is Open, or HalfOpen with halfOpenMaxCalls probes
\* admitted, no operation is invoked, and an execute() call is rejected
\* leaving the state, the failure count, the probe count and the timer as
\* they were.
C13_RejectsWithoutInvoking ==
  [][(cbState = "OPEN" \/ (cbState = "HALF_OPEN" /\ halfOpenCalls >= halfOpenMaxCalls)) =>
       /\ InFlight' <= InFlight
       /\ cbEvent' # "invoked"
       /\ Execute =>
            /\ cbEvent' = "rejected"
            /\ UNCHANGED <<cbState, failures, halfOpenCalls, calls, pendingResets>>]_vars

\* C13, witness: an execute() call was rejected while the circuit is Open.
C13_Witness ==
  /\ cbEvent = "rejected"
  /\ cbState = "OPEN"
  /\ failures = failureThreshold

\* C14: whenever the circuit is Open a timer of resetTimeoutMs is pending;
\* the circuit leaves Open only by that timer, to HalfOpen; it does leave
\* Open; and an execute() call made while HalfOpen with no probe admitted
\* yet invokes its operation as a probe.
C14_OpenBecomesHalfOpen ==
  /\ [](cbState = "OPEN" =>
          /\ pendingResets # {}
          /\ \A t \in pendingResets : t.delay = resetTimeoutMs)
  /\ [][(cbState = "OPEN" /\ cbState' # "OPEN") =>
          (cbState' = "HALF_OPEN" /\ cbEvent' = "timer" /\ halfOpenCalls' = 0)]_vars
  /\ [][(Execute /\ cbState = "HALF_OPEN" /\ halfOpenCalls = 0) =>
          (cbEvent' = "invoked" /\ calls'["probe"] = calls["probe"] + 1)]_vars
  /\ (cbState = "OPEN" ~> cbState = "HALF_OPEN")

\* C14, witness: the timer made the circuit HalfOpen and the first execute()
\* call after it was admitted as a probe.
C14_Witness ==
  /\ cbState = "HALF_OPEN"
  /\ cbEvent = "invoked"
  /\ probes = 1
  /\ calls["probe"] = 1

\* C15: halfOpenCalls never exceeds halfOpenMaxCalls, and no more than
\* halfOpenMaxCalls operations are admitted in one HalfOpen period.
C15_ProbeBudget ==
  /\ halfOpenCalls <= halfOpenMaxCalls
  /\ probes <= halfOpenMaxCalls
  /\ calls["probe"] <= halfOpenMaxCalls

\* C15, witness: halfOpenMaxCalls probes are in flight in one HalfOpen
\* period and a further execute() call was rejected.
C15_Witness ==
  /\ cbState = "HALF_OPEN"
  /\ probes = halfOpenMaxCalls
  /\ calls["probe"] = halfOpenMaxCalls
  /\ cbEvent = "rejected"

\* C16: while HalfOpen, a probe that fails makes the circuit Open, and a
\* probe that succeeds makes it Closed with failures and halfOpenCalls 0.
C16_ProbeDecides ==
  [][cbState = "HALF_OPEN" =>
       /\ Complete("probe", FALSE) => cbState' = "OPEN"
       /\ Complete("probe", TRUE) =>
            (cbState' = "CLOSED" /\ failures' = 0 /\ halfOpenCalls' = 0)]_vars

\* C16, witness: the only probe of a HalfOpen period succeeded and the
\* circuit is Closed with no failure counted.
C16_Witness ==
  /\ cbState = "CLOSED"
  /\ cbEvent = "success"
  /\ probes = 1
  /\ InFlight = 0
  /\ failures = 0

\* The number of admitted acquire() calls made in the w ms that end at t.
AdmittedWithin(t, w) ==
  Cardinality({i \in 1..Len(admitted) : admitted[i] <= t /\ t - admitted[i] < w})

\* C17: in every trailing 60-second window at most requestsPerMinute
\* requests were admitted.
C17_MinuteLimit ==
  \A i \in 1..Len(admitted) : AdmittedWithin(admitted[i], windowMs) <= requestsPerMinute

\* C17, witness: the limit of the minute was reached and a call rejected
\* for it, after more than requestsPerMinute calls had been admitted over
\* a longer time.
C17_Witness ==
  /\ Len(admitted) > requestsPerMinute
  /\ AdmittedWithin(now, windowMs) = requestsPerMinute
  /\ AdmittedWithin(now, burstWindowMs) < burstSize
  /\ acquired = "rejected"

\* C18: in every trailing 1-second window at most burstSize requests were
\* admitted; on a fresh limiter the first burstSize calls are admitted, and
\* a call made when burstSize calls were admitted in the last second is
\* rejected.
C18_BurstLimit ==
  /\ [](\A i \in 1..Len(admitted) : AdmittedWithin(admitted[i], burstWindowMs) <= burstSize)
  /\ [][(Acquire /\ Len(admitted) < burstSize) => acquired' = "admitted"]_vars
  /\ [][(Acquire /\ AdmittedWithin(now, burstWindowMs) = burstSize) =>
          (acquired' = "rejected" /\ admitted' = admitted)]_vars

\* C18, witness: burstSize calls were admitted within one second on a fresh
\* limiter and the next call within that second was rejected.
C18_Witness ==
  /\ Len(admitted) = burstSize
  /\ now - admitted[1] < burstWindowMs
  /\ acquired = "rejected"

\* C19: acquire() admits exactly when fewer than requestsPerMinute calls
\* were admitted in the last 60 seconds and fewer than burstSize in the last
\* second; an admitted call records its time, a rejected call records
\* nothing; the timestamps kept are those of the calls admitted in the last
\* 60 seconds.
C19_AcquireDecision ==
  [][Acquire =>
       /\ acquired' = "admitted" <=>
            (AdmittedWithin(now, windowMs) < requestsPerMinute
               /\ AdmittedWithin(now, burstWindowMs) < burstSize)
       /\ acquired' = "admitted" => admitted' = Append(admitted, now)
       /\ acquired' = "rejected" =>
            (admitted' = admitted /\ Len(timestamps') <= Len(timestamps))
       /\ timestamps' = SelectSeq(admitted', LAMBDA time : now - time < windowMs)]_vars

\* C19, witness: a call was admitted after earlier admissions, as many as
\* requestsPerMinute, had left the 60-second window.
C19_Witness ==
  /\ acquired = "admitted"
  /\ Len(admitted) > requestsPerMinute
  /\ admitted[Len(admitted)] = now
  /\ Len(timestamps) < Len(admitted)

\* C20: the sleep that follows a poll lasts the interval after
\* authorization_pending and twice the interval after slow_down, whatever
\* the answers before; the next poll is not sent before it has passed.
C20_PollWait ==
  /\ [](pollPc = "sleep" =>
          /\ pollLog[Len(pollLog)].r = "authorization_pending" =>
               pollWait = pollSession.interval * 1000
          /\ pollLog[Len(pollLog)].r = "slow_down" =>
               pollWait = 2 * pollSession.interval * 1000)
  /\ [][(pollPc = "sleep" /\ pollPc' # "sleep") => now' - now >= pollWait]_vars

\* C20, witness: the poll after one answered slow_down is answered
\* authorization_pending, and the sleep lasts the interval again.
C20_Witness ==
  /\ pollPc = "sleep"
  /\ Len(pollLog) >= 2
  /\ pollLog[Len(pollLog) - 1].r = "slow_down"
  /\ pollLog[Len(pollLog) - 1].wait = 2 * pollSession.interval * 1000
  /\ pollLog[Len(pollLog)].r = "authorization_pending"
  /\ pollWait = pollSession.interval * 1000

\* The last answer logged, when there is one.
LastAnswer == pollLog[Len(pollLog)]

\* The step logs the answer to a poll.
AnswerLogged == Len(pollLog') = Len(pollLog) + 1

\* C21: after a poll answered slow_down, every later wait of the session is
\* at least twice the interval the session started with.
C21_SlowDownPersists ==
  \A i, j \in 1..Len(pollLog) :
    (i < j /\ pollLog[i].r = "slow_down" /\ PollOutcome(pollLog[j].r) = "sleep") =>
      pollLog[j].wait >= 2 * IntervalMs(pollSession)

\* C22: an answer carrying a named error other than authorization_pending
\* and slow_down ends polling as denied with an AuthenticationError of that
\* name, the progress timer cleared, and no poll is sent afterwards.
C22_NamedErrorDenies ==
  /\ [][(AnswerLogged /\ LastAnswer' .r \in NamedErrors) =>
          /\ pollPc' = "denied"
          /\ pollError' = LastAnswer' .r
          /\ authPc' = "failed"
          /\ polls' = polls]_vars
  /\ [][pollPc = "denied" => (pollPc' = "denied" /\ polls' = polls)]_vars

\* C22, witness: after a poll answered authorization_pending the next is
\* answered expired_token and polling ended denied with that error.
C22_Witness ==
  /\ pollPc = "denied"
  /\ Len(pollLog) >= 2
  /\ LastAnswer.r = "expired_token"
  /\ pollError = "expired_token"
  /\ polls = Len(pollLog)

\* C23: after a poll answered with a status that is not ok (and not 428),
\* with a body that names no error, polling goes on.
C23_HttpErrorIsTransient ==
  (pollLog # <<>> /\ LastAnswer.r = "http_error") => pollPc # "denied"

\* C24: a poll is sent only while less than expires_in has passed since the
\* start of polling; a sleep that ends at or after that deadline ends polling
\* with the timeout error, and no poll follows; when polling has ended
\* (approved, denied, expired) the progress timer is cleared.
C24_DeadlineAndTimer ==
  /\ [][polls' = polls + 1 =>
          now' - pollSession'.startTime < pollSession'.expires_in * 1000]_vars
  /\ [][(pollPc = "sleep" /\ pollPc' # "sleep"
           /\ now' - pollSession.startTime >= pollSession.expires_in * 1000) =>
          (pollPc' = "expired" /\ pollError' = "timeout" /\ authPc' = "failed")]_vars
  /\ [][pollPc = "expired" => (pollPc' = "expired" /\ polls' = polls)]_vars
  /\ [](pollPc \in {"approved", "denied", "expired"} => ~progressInterval)

\* C24, witness: polling ended at the deadline exactly, after two polls, with
\* the timeout error and the progress timer cleared.
C24_Witness ==
  /\ pollPc = "expired"
  /\ polls >= 2
  /\ now - pollSession.startTime = pollSession.expires_in * 1000
  /\ pollError = "timeout"
  /\ ~progressInterval

\* C25: the secret is written only after polling ended approved, and before
\* authenticate() returns; authenticate() fails only when polling did not end
\* approved, with an error and nothing written; a failed device code request
\* ends authenticate() with no poll sent.
C25_SecretStoredIffApproved ==
  /\ stored => pollPc = "approved"
  /\ authPc = "returned" => stored
  /\ authPc = "failed" => (~stored /\ pollError # "none" /\ pollPc # "approved")
  /\ pollError = "device_code" => (authPc = "failed" /\ polls = 0 /\ pollPc = "idle")

\* C25, witness: authenticate() returned after polling was approved on a
\* later poll, and the secret is written.
C25_Witness ==
  /\ authPc = "returned"
  /\ stored
  /\ pollPc = "approved"
  /\ polls >= 2

\* What the lines of the body before data: [DONE] add, in upstream order.
Expected == SelectSeq(BeforeDone(sseBody), LAMBDA k : Emits(sseMode, k))

\* C26: the text accumulated by the buffered variant is the concatenation,
\* in upstream order, of the text of the well-formed data lines received
\* before data: [DONE] or the end of the body.
C26_BufferedIsConcatenation ==
  (ssePc = "returned" /\ sseMode = "buffered") => sseOut = Expected

\* C27: the buffered variant returns the carriage return placeholder when no
\* text was accumulated, never the empty text, and the accumulated text
\* otherwise.
C27_PlaceholderWhenEmpty ==
  (ssePc = "returned" /\ sseMode = "buffered") =>
    /\ sseResult # <<>>
    /\ sseOut = <<>> => sseResult = <<"\r">>
    /\ sseOut # <<>> => sseResult = sseOut

\* C27, witness: a body with lines but no text was read to its end and the
\* placeholder returned.
C27_Witness ==
  /\ ssePc = "returned"
  /\ sseMode = "buffered"
  /\ Len(sseBody) >= 2
  /\ sseOut = <<>>
  /\ sseResult = <<"\r">>

\* C28: the streaming variant has enqueued the well-formed data lines that
\* come before data: [DONE] or the end of the body, in upstream order, when
\* it closes the sequence, and closes it once.
C28_StreamedInOrderClosedOnce ==
  /\ sseClosed <= 1
  /\ (ssePc = "returned" /\ sseMode = "streaming") =>
       (sseOut = Expected /\ sseClosed = 1)

\* C29: no log line written during device authorization shows a complete
\* long-lived secret.
C29_NoSecretInLogs ==
  \A i \in 1..Len(pollLog) : pollLog[i].secret # "complete"

\* C30: the failure counter stays within 0..failureThreshold; the circuit is
\* Closed only while the counter is below failureThreshold; the state changes
\* only from Closed to Open, Open to HalfOpen, HalfOpen to Open and HalfOpen
\* to Closed.
C30_CounterAndTransitions ==
  /\ [](failures \in 0..failureThreshold)
  /\ [](cbState = "CLOSED" => failures < failureThreshold)
  /\ [][cbState' # cbState =>
          <<cbState, cbState'>> \in {<<"CLOSED", "OPEN">>, <<"OPEN", "HALF_OPEN">>,
                                     <<"HALF_OPEN", "OPEN">>, <<"HALF_OPEN", "CLOSED">>}]_vars

\* C30, witness: a failure was recorded with the counter at failureThreshold
\* and the circuit Open while another operation admitted when Closed is
\* still in flight.
C30_Witness ==
  /\ cbState = "OPEN"
  /\ cbEvent = "failure"
  /\ failures = failureThreshold
  /\ calls["closed"] >= 1

\* C31: while the circuit is HalfOpen, the completion of an operation that
\* was admitted while Closed or in an earlier HalfOpen period leaves the
\* circuit HalfOpen.
C31_OnlyCurrentProbesDecide ==
  [][(cbState = "HALF_OPEN"
        /\ \E k \in {"closed", "stale"}, ok \in BOOLEAN : Complete(k, ok)) =>
       cbState' = "HALF_OPEN"]_vars

\* C32: a cached credential that is present and not expired, and its
\* expiry, change only when an exchange call is answered with a credential,
\* which is stored then: they are not lost to a refresh that starts or fails.
C32_ChangesOnlyOnSuccess ==
  [][(~NeedsRefresh /\ (copilotToken' # copilotToken \/ expiresAt' # expiresAt)) =>
       \E j \in jobs : /\ j.pc = "exchange"
                       /\ copilotToken' = j.call
                       /\ copilotToken' # 0]_vars

\* C33: the handling of a 401 answer of the completions endpoint by a
\* forwarder leaves the stored long-lived secret in place.
C33_ForwarderKeepsSecret ==
  [][\A c \in Forwarders :
       (req[c].pc = "removing" /\ req'[c].pc # "removing") => tokenFile' = tokenFile]_vars

\* What the reading gives when the whole body arrives as one chunk.
OneChunk == Scan(sseMode, sseBody, 1, <<>>).out

\* C34: however the body is cut into chunks, the text accumulated by the
\* buffered variant and the chunks enqueued by the streaming variant are
\* those of the body read as one chunk.
C34_ChunkingIndependent ==
  ssePc = "returned" => sseOut = OneChunk

\* C35: at most one background refresh timer exists, and exactly one once
\* initialize() has returned after a successful refresh.
C35_OneRefreshTimer ==
  /\ Len(timers) <= 1
  /\ initPc = "returned" => Len(timers) = 1

\* C36: once the read loop of either variant has been left, by the end of
\* the body, by [DONE] or by a read error, no reader is still locked.
C36_ReaderAlwaysReleased ==
  ssePc # "reading" => sseLocks = 0

\* C37: an upstream call that fails before its response is obtained is
\* retried below the last attempt; once the streaming variant reads the body
\* for its caller, no further upstream call is sent and no delay slept, the
\* chunks enqueued are only added to, and a read error ends the sequence
\* as errored, for good.
C37_NoRetryOnceHanded ==
  /\ [][(SseRefused /\ sseAttempt < maxRetries) => ssePc' = "sleep"]_vars
  /\ [][(sseMode = "streaming" /\ ssePc = "reading") =>
          /\ sseAttempt' = sseAttempt
          /\ sseSlept' = sseSlept
          /\ ssePc' \in {"reading", "returned", "errored"}
          /\ Len(sseOut') >= Len(sseOut)
          /\ SubSeq(sseOut', 1, Len(sseOut)) = sseOut]_vars
  /\ [][(SseReadError /\ sseMode = "streaming") => ssePc' = "errored"]_vars
  /\ [][ssePc = "errored" => UNCHANGED sseVars]_vars

\* C37, witness: the second upstream call of a streaming completion was
\* answered, a chunk was enqueued, and then a read failed.
C37_Witness ==
  /\ sseMode = "streaming"
  /\ ssePc = "errored"
  /\ sseAttempt = 2
  /\ sseOut # <<>>

\* C40: the k-th delay slept by executeWithRetry is min(1000 * 2^(k-1), 5000)
\* ms; one delay is slept after every failed attempt but the last, and none
\* after the last.
C40_BackoffDelays ==
  /\ \A k \in 1..Len(sseSlept) :
       sseSlept[k] = (IF 1000 * 2 ^ (k - 1) < 5000 THEN 1000 * 2 ^ (k - 1) ELSE 5000)
  /\ ssePc = "idle" => sseSlept = <<>>
  /\ ssePc = "sleep" => (Len(sseSlept) = sseAttempt /\ sseAttempt < maxRetries)
  /\ ssePc \in {"calling", "reading", "returned", "errored", "failed"} =>
       Len(sseSlept) = sseAttempt - 1
  /\ ssePc = "failed" => sseAttempt = maxRetries

\* C40, witness: every attempt failed, with 1000 ms slept after the first
\* and 2000 ms after the second, and nothing after the last.
C40_Witness ==
  /\ ssePc = "failed"
  /\ sseAttempt = maxRetries
  /\ sseSlept = <<1000, 2000>>

\* C39: the expiry stored when an exchange is answered with a credential is
\* now plus the lifetime when the answer carries expires_in, else the instant
\* exp embedded in the credential, else unknown (0).
C39_ExpiryIsReference ==
  [][\A j \in jobs, r \in ExchangeResponses :
       (JobExchange(j, r) /\ r.status = 200 /\ r.token) =>
         expiresAt' = (IF r.expires_in # 0 THEN now + r.expires_in * 1000
                       ELSE IF r.exp # 0 THEN r.exp * 1000
                       ELSE 0)]_vars

\* C38: a polling session ends approved, denied or expired, whatever the
\* answers to its polls, and stays as it ended: approved with the token
\* answered and no error, expired with the timeout error, denied with
\* another error.  (Sessions of at most MaxPolls intervals: the others are
\* not followed to their deadline.)
C38_SessionTerminates ==
  /\ ((pollPc \in {"request", "sleep"}
         /\ pollSession.expires_in <= MaxPolls * pollSession.interval)
        ~> pollPc \in {"approved", "denied", "expired"})
  /\ [][(pollPc \in {"approved", "denied", "expired"}) =>
          (pollPc' = pollPc /\ polls' = polls /\ pollLog' = pollLog)]_vars
  /\ [](pollPc = "approved" => (LastAnswer.r = "token" /\ pollError = "none"))
  /\ [](pollPc = "expired" => pollError = "timeout")
  /\ [](pollPc = "denied" => pollError \notin {"none", "timeout"})

\* C38, witness: a session whose polls were answered with a body that is
\* not JSON, with a transport error and with authorization_pending ended
\* expired.
C38_Witness ==
  /\ pollPc = "expired"
  /\ polls >= 3
  /\ \E i, j, k \in DOMAIN pollLog :
       /\ pollLog[i].r = "bad_json"
       /\ pollLog[j].r = "network_error"
       /\ pollLog[k].r = "authorization_pending"

====
